---- MODULE Spec2Model ----
(***************************************************************************)
(* Model of the two deployments of the task-submission server:             *)
(*   "api"  : src/api/server.py  (blocking dispatcher, cumulative README)  *)
(*   "root" : src/server.py      (fire-and-forget dispatcher, replacing    *)
(*                                README)                                  *)
(* The hosting service (GitHub through PyGithub) and the evaluation        *)
(* endpoint are external; every call to them is one step of the model and  *)
(* may fail.  Timestamps written into the README are abstracted away.      *)
(***************************************************************************)
EXTENDS Integers, Sequences, FiniteSets, TLC

\* ------------------------------------------------------------------ bounds
\* Number of requests a behaviour serves.
MaxRequests == 2

\* ------------------------------------------------------- program constants
\* post_evaluation(url, payload, max_retries=5)
max_retries == 5
\* delay = 1
InitialDelay == 1

\* SECRET_FORM (api, default) and VALID_SECRET (root): the configured secret.
SECRET_FORM == "Ojal2"
VALID_SECRET == "Ojal2"

Variants == {"api", "root"}
Procs == {"w1", "w2"}
\* The server processes that serve requests under Spec.
Workers == {"w1"}
Login == "login"
Tasks == {"demo"}
Rounds == {1, 2}
Briefs == {"b1", "b2"}
Secrets == {"Ojal2", "wrong"}
Emails == {"a@example.com"}
Nonces == {"n1"}

\* --------------------------------------------------------------- base64
\* A base64 text is a sequence of symbol values: 0..63 are the alphabet,
\* Pad is '='.
Pad == 64

Bytes3(a, b, c, d) ==
    << a * 4 + (b \div 16), (b % 16) * 16 + (c \div 4), (c % 4) * 64 + d >>

\* The marker for binascii.Error raised by base64.b64decode.
B64Error == << -1 >>

RECURSIVE b64quads(_)
b64quads(s) ==
    IF s = <<>> THEN <<>>
    ELSE LET a == s[1]
             b == s[2]
             c == s[3]
             d == s[4]
             rest == SubSeq(s, 5, Len(s))
         IN  IF a = Pad \/ b = Pad THEN B64Error
             ELSE IF c = Pad
                  THEN IF d = Pad /\ rest = <<>>
                       THEN << a * 4 + (b \div 16) >>
                       ELSE B64Error
             ELSE IF d = Pad
                  THEN IF rest = <<>>
                       THEN << a * 4 + (b \div 16), (b % 16) * 16 + (c \div 4) >>
                       ELSE B64Error
             ELSE LET tail == b64quads(rest)
                  IN  IF tail = B64Error THEN B64Error
                      ELSE Bytes3(a, b, c, d) \o tail

\* base64.b64decode(attach.content.encode()): the bytes, or B64Error when
\* the text is not padded to a multiple of four symbols.
b64decode(s) ==
    IF Len(s) % 4 # 0 THEN B64Error ELSE b64quads(s)

\* "aGk=" (hi), "eW8=" (yo), "aGl=" (hi again, spare bits set), "aGk" (bad).
B64_hi == << 26, 6, 36, Pad >>
B64_yo == << 30, 22, 60, Pad >>
B64_hi2 == << 26, 6, 37, Pad >>
B64_bad == << 26, 6, 36 >>

\* ------------------------------------------------------------- contents
\* A file's content is a sequence of chunks: raw bytes written from an
\* attachment, or one of the texts the synchronizer renders.
Chunk(k, r, s, b) == [k |-> k, r |-> r, s |-> s, b |-> b]

\* The bytes of a decoded attachment.
RawBytes(bs) == IF bs = <<>> THEN <<>> ELSE << Chunk("bytes", 0, "", bs) >>
\* f"# {task_name}\n\n"
Title(task) == << Chunk("title", 0, task, <<>>) >>
\* f"\n\n## Round {round_index} Updates\n{brief}\nUpdated: ..."
RoundSection(round, brief) == << Chunk("round", round, brief, <<>>) >>
\* f"Brief:\n{brief}\n\nUpdated: ..."
BriefBlock(brief) == << Chunk("brief", 0, brief, <<>>) >>
\* "MIT License\n\nCopyright (c) ..."
license_text == << Chunk("license", 0, "", <<>>) >>

README == "README.md"
LICENSE == "LICENSE"
Filenames == {"index.html", "style.css", README, LICENSE}

Attachment(f, c) == [filename |-> f, content |-> c]

\* The attachment lists a submission may carry.
AttachmentLists ==
    { <<>>,
      << Attachment("index.html", B64_hi) >>,
      << Attachment("index.html", B64_hi2), Attachment("style.css", B64_yo) >>,
      << Attachment("index.html", B64_yo), Attachment("index.html", B64_hi) >>,
      << Attachment(README, B64_hi) >>,
      << Attachment(LICENSE, B64_yo) >>,
      << Attachment("style.css", B64_hi), Attachment("index.html", B64_bad) >> }

\* RequestPayload, with the fields the handler reads.
Submissions ==
    [email : Emails, secret : Secrets, task : Tasks, round : Rounds,
     nonce : Nonces, brief : Briefs, attachments : AttachmentLists]

NoSubmission ==
    [email |-> "", secret |-> "", task |-> "", round |-> 0, nonce |-> "",
     brief |-> "", attachments |-> <<>>]


\* ------------------------------------------------------------ the state
VARIABLES
    variant,      \* which server is deployed: "api" or "root"
    transient,    \* whether calls to the hosting service may fail for reasons
                  \* of the network or the service (never changes)
    repos,        \* the hosting account: task name -> repository
    pc,           \* each server process's position in handle_request
    sub,          \* payload: the submission a process is handling
    idx,          \* position of the attachment loop (for attach in attachments)
    content,      \* content: the decoded attachment
    repo_file,    \* repo_file / readme_file: the path and version token read
    readme_text,  \* readme_text (api) / readme_content (root)
    sync,         \* repo_url, commit_sha, pages_url returned by the synchronizer
    resp,         \* the handler's answer to the submitter
    calls,        \* the hosting-API calls of the request being handled
    nsync,        \* calls of init_or_update_repo by the request being handled
    ndisp,        \* calls of the dispatcher by the request being handled
    delay,        \* post_evaluation: delay
    sleeps,       \* post_evaluation: the time.sleep calls made, in order
    outcome,      \* post_evaluation: what the last POST answered
    attempt,      \* post_evaluation: POST attempts that have ended so far
    posted,       \* post_evaluation: its return value ("none" while running)
    bg,           \* asyncio tasks created and not yet finished (root)
    served,       \* requests received so far
    wrote,        \* the commit of the last write the service accepted from the
                  \* request being handled (0: none yet)
    eval_payload, \* eval_payload: what the handler hands to the dispatcher
    async_posts,  \* POSTs made so far by each task that was created (root);
                  \* kept until the next request arrives after the task's end
    issued,       \* per task and path: the content of the write call the
                  \* service received last, accepted or not, once two server
                  \* processes synchronize the task
    last          \* the arguments of the last synchronization and the files it
                  \* left, kept while the requests that follow repeat its
                  \* arguments; replay: such a repeat has returned too

vars == << variant, transient, repos, pc, sub, idx, content, repo_file, readme_text, sync,
           resp, calls, nsync, ndisp, delay, sleeps, outcome, attempt, posted, bg,
           served, wrote, eval_payload, async_posts, issued, last >>

\* ---------------------------------------------------- the hosting service
NoFiles == [f \in {} |-> <<>>]
NoRepo == [exists |-> FALSE, private |-> TRUE, files |-> NoFiles, commits |-> 0]

\* The version token of a file: the hash of its content.
BlobSha(c) == c

NoFile == [path |-> "", sha |-> <<>>]
\* Seeded fault: the version token read is not passed on.
FileRead_NoSha(r, path) == [path |-> path, sha |-> <<>>]
\* repo_file = repo.get_contents(path): the path and sha the code passes on.
FileRead(r, path) == [path |-> path, sha |-> BlobSha(r.files[path])]

\* The files of a repository after a write of c at path.
Put(files, path, c) ==
    [f \in (DOMAIN files) \cup {path} |-> IF f = path THEN c ELSE files[f]]

\* A write commits: the file changes and the branch gets a new head commit.
Commit(r, path, c) ==
    [r EXCEPT !.files = Put(r.files, path, c), !.commits = r.commits + 1]

\* Another server process has a synchronization of p's task, running or ended.
Shared(p) == \E q \in Procs \ {p} : sub[q].task = sub[p].task

\* What a write call of process p leaves in the histories: the commit it
\* made when the service accepted it, and, when the service received it (up:
\* it answered, with an acceptance or a refusal) for a task that another
\* process synchronizes too, the path and content sent.
Written(p, path, c, accepted, up) ==
    /\ wrote' = [wrote EXCEPT ![p] =
                    IF accepted THEN repos[sub[p].task].commits + 1 ELSE @]
    /\ issued' = IF up /\ Shared(p)
                 THEN [issued EXCEPT ![sub[p].task] = Put(@, path, c)]
                 ELSE issued

\* user.get_repo(name) finds the repository.
GetRepoOk(r, ok) == ok /\ r.exists
\* user.create_repo(name, private=False) creates it.
CreateRepoOk(r, ok) == ok /\ ~r.exists
CreatedRepo == [exists |-> TRUE, private |-> FALSE, files |-> NoFiles, commits |-> 0]
\* repo.get_contents(path) finds the file.
GetContentsOk(r, path, ok) == ok /\ r.exists /\ path \in DOMAIN r.files
\* Seeded fault: the service accepts an update whatever token it carries.
UpdateFileOk_AnyToken(r, path, sha, ok) ==
    ok /\ r.exists /\ path \in DOMAIN r.files
\* repo.update_file(path, message, content, sha) is accepted: the file is
\* there and sha is its current version token.
UpdateFileOk(r, path, sha, ok) ==
    ok /\ r.exists /\ path \in DOMAIN r.files /\ BlobSha(r.files[path]) = sha
\* repo.create_file(path, message, content) is accepted: no file is there.
CreateFileOk(r, path, ok) == ok /\ r.exists /\ path \notin DOMAIN r.files
\* repo.get_commits()[0] exists.
GetCommitsOk(r, ok) == ok /\ r.exists /\ r.commits > 0

\* repo.html_url and the derived pages url.
HtmlUrl(task) == << "https://github.com/", Login, "/", task >>
PagesUrl(task) == << "https://", Login, ".github.io/", task, "/" >>

\* ----------------------------------------------------------- responses
NoSync == [repo_url |-> <<>>, commit_sha |-> 0, pages_url |-> <<>>]
NoResp == [kind |-> "none", repo_url |-> <<>>, commit_sha |-> 0, pages_url |-> <<>>]
\* {"error": "Invalid secret"}
InvalidSecret == [NoResp EXCEPT !.kind = "Invalid secret"]
\* {"status": "ok", repo_url, commit_sha, pages_url}
StatusOk(s) ==
    [kind |-> "ok", repo_url |-> s.repo_url, commit_sha |-> s.commit_sha,
     pages_url |-> s.pages_url]
\* An exception that leaves handle_request (the framework answers 500).
Raised(e) == [NoResp EXCEPT !.kind = e]

NoPayload ==
    [email |-> "", task |-> "", round |-> 0, nonce |-> "",
     repo_url |-> <<>>, commit_sha |-> 0, pages_url |-> <<>>]
NoPosts == [i \in {} |-> 0]
\* The tasks of posts that are still running.
Pending(posts, tasks) == [t \in tasks \cap DOMAIN posts |-> posts[t]]

NoLast == [set |-> FALSE, args |-> NoSubmission, files |-> NoFiles, replay |-> FALSE]

ConfiguredSecret == IF variant = "api" THEN SECRET_FORM ELSE VALID_SECRET

\* What a call to the hosting service may meet: the service answers (TRUE),
\* or the call fails before it does (FALSE).
Up == IF transient THEN BOOLEAN ELSE {TRUE}

\* No request has arrived yet.
Fresh ==
    /\ pc = [p \in Procs |-> "idle"]
    /\ sub = [p \in Procs |-> NoSubmission]
    /\ idx = [p \in Procs |-> 1]
    /\ content = [p \in Procs |-> <<>>]
    /\ repo_file = [p \in Procs |-> NoFile]
    /\ readme_text = [p \in Procs |-> <<>>]
    /\ sync = [p \in Procs |-> NoSync]
    /\ resp = [p \in Procs |-> NoResp]
    /\ calls = [p \in Procs |-> <<>>]
    /\ nsync = [p \in Procs |-> 0]
    /\ ndisp = [p \in Procs |-> 0]
    /\ delay = [p \in Procs |-> InitialDelay]
    /\ sleeps = [p \in Procs |-> <<>>]
    /\ outcome = [p \in Procs |-> "none"]
    /\ attempt = [p \in Procs |-> 0]
    /\ posted = [p \in Procs |-> "none"]
    /\ bg = {}
    /\ served = 0
    /\ wrote = [p \in Procs |-> 0]
    /\ eval_payload = [p \in Procs |-> NoPayload]
    /\ async_posts = NoPosts
    /\ issued = [t \in Tasks |-> NoFiles]
    /\ last = NoLast

Init ==
    /\ variant \in Variants
    /\ transient = TRUE
    /\ repos = [t \in Tasks |-> NoRepo]
    /\ Fresh


\* --------------------------------------------------------- the handler
Repo(p) == repos[sub[p].task]
Attach(p) == sub[p].attachments[idx[p]]

\* One hosting-API call and whether the service accepted it.
Called(p, op, path, accepted) ==
    calls' = [calls EXCEPT ![p] =
                 Append(@, << op, path, IF accepted THEN "ok" ELSE "failed" >>)]

\* Seeded fault: the loop stops one attachment early.
AfterAttachment_SkipsLast(p, i) ==
    IF i + 1 < Len(sub[p].attachments) THEN "attach" ELSE "readme"
\* Where init_or_update_repo goes after attachment number i is written.
AfterAttachment(p, i) == IF i < Len(sub[p].attachments) THEN "attach" ELSE "readme"
\* Seeded fault: the LICENSE step runs in every round.
AfterReadme_EveryRound(p) == "license"
\* Where it goes after the README is written.
AfterReadme(p) == IF sub[p].round = 1 THEN "license" ELSE "get_commits"

\* An exception leaves init_or_update_repo and handle_request.
Raise(p, e) ==
    /\ pc' = [pc EXCEPT ![p] = "idle"]
    /\ resp' = [resp EXCEPT ![p] = Raised(e)]
    /\ last' = NoLast

\* Seeded fault: the secret is not compared.
SecretOk_NoCheck(s) == TRUE
\* if payload.secret != SECRET_FORM  /  != VALID_SECRET
SecretOk(s) == s.secret = ConfiguredSecret

\* handle_request, to the secret check: a request arrives; a wrong secret is
\* answered at once, a right one enters init_or_update_repo.
Receive(p, s) ==
    /\ pc[p] = "idle"
    /\ served < MaxRequests
    /\ sub' = [sub EXCEPT ![p] = s]
    /\ IF SecretOk(s)
       THEN /\ pc' = [pc EXCEPT ![p] = "get_repo"]
            /\ resp' = [resp EXCEPT ![p] = NoResp]
            /\ nsync' = [nsync EXCEPT ![p] = 1]
       ELSE /\ pc' = [pc EXCEPT ![p] = "idle"]
            /\ resp' = [resp EXCEPT ![p] = InvalidSecret]
            /\ nsync' = [nsync EXCEPT ![p] = 0]
    /\ served' = served + 1
    /\ idx' = [idx EXCEPT ![p] = 1]
    /\ content' = [content EXCEPT ![p] = <<>>]
    /\ repo_file' = [repo_file EXCEPT ![p] = NoFile]
    /\ readme_text' = [readme_text EXCEPT ![p] = <<>>]
    /\ sync' = [sync EXCEPT ![p] = NoSync]
    /\ calls' = [calls EXCEPT ![p] = <<>>]
    /\ ndisp' = [ndisp EXCEPT ![p] = 0]
    /\ delay' = [delay EXCEPT ![p] = InitialDelay]
    /\ sleeps' = [sleeps EXCEPT ![p] = <<>>]
    /\ outcome' = [outcome EXCEPT ![p] = "none"]
    /\ attempt' = [attempt EXCEPT ![p] = 0]
    /\ posted' = [posted EXCEPT ![p] = "none"]
    /\ wrote' = [wrote EXCEPT ![p] = 0]
    /\ eval_payload' = [eval_payload EXCEPT ![p] = NoPayload]
    /\ last' = IF last.set /\ last.args = sub'[p] /\ SecretOk(sub'[p])
               THEN last ELSE NoLast
    /\ async_posts' = Pending(async_posts, bg)
    /\ UNCHANGED << variant, transient, repos, bg, issued >>

\* A request with any submission arrives at server process p.
handle_request(p) == \E s \in Submissions : Receive(p, s)

\* The submissions of two clients that send the same file of the same task
\* at the same time, with different contents.
RaceSubmissions ==
    [email : Emails, secret : {"Ojal2"}, task : Tasks, round : Rounds,
     nonce : Nonces, brief : Briefs,
     attachments : { << Attachment("index.html", B64_hi) >>,
                     << Attachment("index.html", B64_yo) >> }]

\* A request of the race arrives at server process p.
concurrent_request(p) == \E s \in RaceSubmissions : Receive(p, s)

\* ---------------------------------------------------- init_or_update_repo
\* Seeded fault: a missing repository is created in any round.
MayCreate_AnyRound(round) == TRUE
\* if round_index == 1
MayCreate(round) == round = 1

\* try: repo = user.get_repo(task_name)
\* except: round 1 goes on to create the repository, a later round raises.
get_repo(p) ==
    /\ pc[p] = "get_repo"
    /\ \E ok \in Up :
         /\ Called(p, "get_repo", "", GetRepoOk(Repo(p), ok))
         /\ IF GetRepoOk(Repo(p), ok)
            THEN /\ pc' = [pc EXCEPT ![p] = AfterAttachment(p, 0)]
                 /\ UNCHANGED << resp, last >>
            ELSE IF MayCreate(sub[p].round)
                 THEN /\ pc' = [pc EXCEPT ![p] = "create_repo"]
                      /\ UNCHANGED << resp, last >>
                 ELSE Raise(p, "RuntimeError: repo does not exist")
    /\ UNCHANGED << variant, transient, repos, sub, idx, content, repo_file, readme_text,
                    sync, nsync, ndisp, delay, sleeps, outcome, attempt, posted, bg, served,
                    wrote, eval_payload, async_posts, issued >>

\* repo = user.create_repo(task_name, private=False)
create_repo(p) ==
    /\ pc[p] = "create_repo"
    /\ \E ok \in Up :
         /\ Called(p, "create_repo", "", CreateRepoOk(Repo(p), ok))
         /\ IF CreateRepoOk(Repo(p), ok)
            THEN /\ repos' = [repos EXCEPT ![sub[p].task] = CreatedRepo]
                 /\ pc' = [pc EXCEPT ![p] = AfterAttachment(p, 0)]
                 /\ UNCHANGED << resp, last >>
            ELSE /\ Raise(p, "GithubException")
                 /\ UNCHANGED repos
    /\ UNCHANGED << variant, transient, sub, idx, content, repo_file, readme_text,
                    sync, nsync, ndisp, delay, sleeps, outcome, attempt, posted, bg, served,
                    wrote, eval_payload, async_posts, issued >>

\* for attach in attachments:
\*     content = base64.b64decode(attach.content.encode())
\*     try: repo_file = repo.get_contents(attach.filename)
attach_get_contents(p) ==
    /\ pc[p] = "attach"
    /\ LET bytes == b64decode(Attach(p).content)
       IN  IF bytes = B64Error
           THEN /\ Raise(p, "binascii.Error")
                /\ UNCHANGED << calls, content, repo_file >>
           ELSE \E ok \in Up :
                  /\ Called(p, "get_contents", Attach(p).filename,
                            GetContentsOk(Repo(p), Attach(p).filename, ok))
                  /\ content' = [content EXCEPT ![p] = RawBytes(bytes)]
                  /\ UNCHANGED << resp, last >>
                  /\ IF GetContentsOk(Repo(p), Attach(p).filename, ok)
                     THEN /\ repo_file' = [repo_file EXCEPT ![p] =
                                FileRead(Repo(p), Attach(p).filename)]
                          /\ pc' = [pc EXCEPT ![p] = "update_file"]
                     ELSE /\ pc' = [pc EXCEPT ![p] = "create_file"]
                          /\ UNCHANGED repo_file
    /\ UNCHANGED << variant, transient, repos, sub, idx, readme_text, sync, nsync, ndisp,
                    delay, sleeps, outcome, attempt, posted, bg, served,
                    wrote, eval_payload, async_posts, issued >>

\*     repo.update_file(repo_file.path, f"Update ...", content, repo_file.sha)
\* except: falls through to create_file
attach_update_file(p) ==
    /\ pc[p] = "update_file"
    /\ \E ok \in Up :
         /\ Called(p, "update_file", repo_file[p].path,
                   UpdateFileOk(Repo(p), repo_file[p].path, repo_file[p].sha, ok))
         /\ Written(p, repo_file[p].path, content[p],
                    UpdateFileOk(Repo(p), repo_file[p].path, repo_file[p].sha, ok), ok)
         /\ IF UpdateFileOk(Repo(p), repo_file[p].path, repo_file[p].sha, ok)
            THEN /\ repos' = [repos EXCEPT ![sub[p].task] =
                                 Commit(@, repo_file[p].path, content[p])]
                 /\ idx' = [idx EXCEPT ![p] = @ + 1]
                 /\ pc' = [pc EXCEPT ![p] = AfterAttachment(p, idx[p])]
            ELSE /\ pc' = [pc EXCEPT ![p] = "create_file"]
                 /\ UNCHANGED << repos, idx >>
    /\ UNCHANGED << variant, transient, sub, content, repo_file, readme_text, sync, resp,
                    nsync, ndisp, delay, sleeps, outcome, attempt, posted, bg, served, last,
                    eval_payload, async_posts >>

\* Seeded fault: a create_file that fails is passed over.
attach_create_file_Swallows(p) ==
    /\ pc[p] = "create_file"
    /\ \E ok \in Up :
         /\ Called(p, "create_file", Attach(p).filename,
                   CreateFileOk(Repo(p), Attach(p).filename, ok))
         /\ Written(p, Attach(p).filename, content[p],
                    CreateFileOk(Repo(p), Attach(p).filename, ok), ok)
         /\ repos' = IF CreateFileOk(Repo(p), Attach(p).filename, ok)
                     THEN [repos EXCEPT ![sub[p].task] =
                              Commit(@, Attach(p).filename, content[p])]
                     ELSE repos
         /\ idx' = [idx EXCEPT ![p] = @ + 1]
         /\ pc' = [pc EXCEPT ![p] = AfterAttachment(p, idx[p])]
         /\ UNCHANGED << resp, last >>
    /\ UNCHANGED << variant, transient, sub, content, repo_file, readme_text, sync,
                    nsync, ndisp, delay, sleeps, outcome, attempt, posted, bg, served,
                    eval_payload, async_posts >>

\* except: repo.create_file(attach.filename, f"Add ...", content)
attach_create_file(p) ==
    /\ pc[p] = "create_file"
    /\ \E ok \in Up :
         /\ Called(p, "create_file", Attach(p).filename,
                   CreateFileOk(Repo(p), Attach(p).filename, ok))
         /\ Written(p, Attach(p).filename, content[p],
                    CreateFileOk(Repo(p), Attach(p).filename, ok), ok)
         /\ IF CreateFileOk(Repo(p), Attach(p).filename, ok)
            THEN /\ repos' = [repos EXCEPT ![sub[p].task] =
                                 Commit(@, Attach(p).filename, content[p])]
                 /\ idx' = [idx EXCEPT ![p] = @ + 1]
                 /\ pc' = [pc EXCEPT ![p] = AfterAttachment(p, idx[p])]
                 /\ UNCHANGED << resp, last >>
            ELSE /\ Raise(p, "GithubException")
                 /\ UNCHANGED << repos, idx >>
    /\ UNCHANGED << variant, transient, sub, content, repo_file, readme_text, sync,
                    nsync, ndisp, delay, sleeps, outcome, attempt, posted, bg, served,
                    eval_payload, async_posts >>


\* Seeded fault: the brief is left out of readme_content.
ReadmeInitial_NoBrief(v, task, brief) == Title(task)
\* readme_text = f"# {task_name}\n\n"                       (api, line 75)
\* readme_content = f"# {task_name}\n\nBrief:\n{brief}..."   (root, line 80)
ReadmeInitial(v, task, brief) ==
    IF v = "api" THEN Title(task) ELSE Title(task) \o BriefBlock(brief)
\* Seeded fault: the replacing README appends to the existing text.
ReadmeForUpdate_AlwaysAppends(v, existing, text, round, brief) ==
    IF v = "api" THEN existing \o RoundSection(round, brief) ELSE existing \o text
\* Seeded fault: the cumulative README forgets the existing text.
ReadmeForUpdate_DropsExisting(v, existing, text, round, brief) ==
    IF v = "api" THEN text \o RoundSection(round, brief) ELSE text
\* The text update_file gets: existing_readme + the round section (api),
\* readme_content (root).
ReadmeForUpdate(v, existing, text, round, brief) ==
    IF v = "api" THEN existing \o RoundSection(round, brief) ELSE text
\* The text create_file gets: readme_text += the round section (api),
\* readme_content (root).
ReadmeForCreate(v, text, round, brief) ==
    IF v = "api" THEN text \o RoundSection(round, brief) ELSE text

\* try: readme_file = repo.get_contents("README.md")
readme_get_contents(p) ==
    /\ pc[p] = "readme"
    /\ \E ok \in Up :
         /\ Called(p, "get_contents", README, GetContentsOk(Repo(p), README, ok))
         /\ LET text == ReadmeInitial(variant, sub[p].task, sub[p].brief)
            IN  IF GetContentsOk(Repo(p), README, ok)
                THEN /\ repo_file' = [repo_file EXCEPT ![p] = FileRead(Repo(p), README)]
                     /\ readme_text' = [readme_text EXCEPT ![p] =
                           ReadmeForUpdate(variant, Repo(p).files[README], text,
                                           sub[p].round, sub[p].brief)]
                     /\ pc' = [pc EXCEPT ![p] = "readme_update"]
                ELSE /\ readme_text' = [readme_text EXCEPT ![p] = text]
                     /\ pc' = [pc EXCEPT ![p] = "readme_create"]
                     /\ UNCHANGED repo_file
    /\ UNCHANGED << variant, transient, repos, sub, idx, content, sync, resp, nsync, ndisp,
                    delay, sleeps, outcome, attempt, posted, bg, served, last,
                    wrote, eval_payload, async_posts, issued >>

\*     repo.update_file(readme_file.path, ..., readme_text, readme_file.sha)
readme_update_file(p) ==
    /\ pc[p] = "readme_update"
    /\ \E ok \in Up :
         /\ Called(p, "update_file", README,
                   UpdateFileOk(Repo(p), repo_file[p].path, repo_file[p].sha, ok))
         /\ Written(p, repo_file[p].path, readme_text[p],
                    UpdateFileOk(Repo(p), repo_file[p].path, repo_file[p].sha, ok), ok)
         /\ IF UpdateFileOk(Repo(p), repo_file[p].path, repo_file[p].sha, ok)
            THEN /\ repos' = [repos EXCEPT ![sub[p].task] =
                                 Commit(@, repo_file[p].path, readme_text[p])]
                 /\ pc' = [pc EXCEPT ![p] = AfterReadme(p)]
            ELSE /\ pc' = [pc EXCEPT ![p] = "readme_create"]
                 /\ UNCHANGED repos
    /\ UNCHANGED << variant, transient, sub, idx, content, repo_file, readme_text, sync, resp,
                    nsync, ndisp, delay, sleeps, outcome, attempt, posted, bg, served, last,
                    eval_payload, async_posts >>

\* except: repo.create_file("README.md", ..., readme_text)
readme_create_file(p) ==
    /\ pc[p] = "readme_create"
    /\ \E ok \in Up :
         /\ Called(p, "create_file", README, CreateFileOk(Repo(p), README, ok))
         /\ readme_text' = [readme_text EXCEPT ![p] =
               ReadmeForCreate(variant, @, sub[p].round, sub[p].brief)]
         /\ Written(p, README, readme_text'[p], CreateFileOk(Repo(p), README, ok), ok)
         /\ IF CreateFileOk(Repo(p), README, ok)
            THEN /\ repos' = [repos EXCEPT ![sub[p].task] =
                                 Commit(@, README, readme_text'[p])]
                 /\ pc' = [pc EXCEPT ![p] = AfterReadme(p)]
                 /\ UNCHANGED << resp, last >>
            ELSE /\ Raise(p, "GithubException")
                 /\ UNCHANGED repos
    /\ UNCHANGED << variant, transient, sub, idx, content, repo_file, sync,
                    nsync, ndisp, delay, sleeps, outcome, attempt, posted, bg, served,
                    eval_payload, async_posts >>

\* if round_index == 1:
\*     try: repo.create_file("LICENSE", "Add MIT License", license_text)
\*     except: pass
license_create_file(p) ==
    /\ pc[p] = "license"
    /\ \E ok \in Up :
         /\ Called(p, "create_file", LICENSE, CreateFileOk(Repo(p), LICENSE, ok))
         /\ Written(p, LICENSE, license_text, CreateFileOk(Repo(p), LICENSE, ok), ok)
         /\ IF CreateFileOk(Repo(p), LICENSE, ok)
            THEN repos' = [repos EXCEPT ![sub[p].task] =
                              Commit(@, LICENSE, license_text)]
            ELSE UNCHANGED repos
    /\ pc' = [pc EXCEPT ![p] = "get_commits"]
    /\ UNCHANGED << variant, transient, sub, idx, content, repo_file, readme_text, sync, resp,
                    nsync, ndisp, delay, sleeps, outcome, attempt, posted, bg, served, last,
                    eval_payload, async_posts >>

\* Seeded fault: the commit before the latest is returned.
SyncResult_StaleCommit(r, task) ==
    [repo_url |-> HtmlUrl(task), commit_sha |-> r.commits - 1, pages_url |-> PagesUrl(task)]
\* commit_sha = repo.get_commits()[0].sha
\* pages_url = f"https://{user.login}.github.io/{task_name}/"
\* return repo.html_url, commit_sha, pages_url
SyncResult(r, task) ==
    [repo_url |-> HtmlUrl(task), commit_sha |-> r.commits, pages_url |-> PagesUrl(task)]

get_commits(p) ==
    /\ pc[p] = "get_commits"
    /\ \E ok \in Up :
         /\ Called(p, "get_commits", "", GetCommitsOk(Repo(p), ok))
         /\ IF GetCommitsOk(Repo(p), ok)
            THEN /\ sync' = [sync EXCEPT ![p] = SyncResult(Repo(p), sub[p].task)]
                 /\ pc' = [pc EXCEPT ![p] = "dispatch"]
                 /\ last' = IF last.set
                            THEN [last EXCEPT !.replay = TRUE]
                            ELSE [set |-> TRUE, args |-> sub[p],
                                  files |-> Repo(p).files, replay |-> FALSE]
                 /\ UNCHANGED resp
            ELSE /\ Raise(p, "GithubException")
                 /\ UNCHANGED sync
    /\ UNCHANGED << variant, transient, repos, sub, idx, content, repo_file, readme_text,
                    nsync, ndisp, delay, sleeps, outcome, attempt, posted, bg, served,
                    wrote, eval_payload, async_posts, issued >>


\* ------------------------------------------------------------ dispatch
\* Seeded fault: repo_url and pages_url change places.
EvalPayload_SwapsUrls(s, r) ==
    [email |-> s.email, task |-> s.task, round |-> s.round, nonce |-> s.nonce,
     repo_url |-> r.pages_url, commit_sha |-> r.commit_sha, pages_url |-> r.repo_url]
\* eval_payload = {"email": ..., "task": ..., "round": ..., "nonce": ...,
\*                 "repo_url": ..., "commit_sha": ..., "pages_url": ...}
EvalPayload(s, r) ==
    [email |-> s.email, task |-> s.task, round |-> s.round, nonce |-> s.nonce,
     repo_url |-> r.repo_url, commit_sha |-> r.commit_sha, pages_url |-> r.pages_url]

\* What one POST to evaluation_url can answer: a status, or a transport error.
PostOutcomes == {"200", "201", "500", "error"}

\* Seeded fault: 201 is taken for success too.
IsSuccess_Any2xx(o) == o \in {"200", "201"}
\* if r.status_code == 200
IsSuccess(o) == o = "200"
\* delay *= 2
NextDelay(d) == d * 2
\* Seeded fault: the loop gives up one attempt early.
MoreAttempts_GivesUpEarly(k) == k < max_retries - 1
\* for _ in range(max_retries): one more iteration follows attempt number k.
MoreAttempts(k) == k < max_retries

\* The endpoint at evaluation_url: it answers as in PostOutcomes, or never.
Endpoint == PostOutcomes \cup {"never"}
\* requests.post(url, json=..., headers=...) is given no timeout (api);
\* httpx.AsyncClient(timeout=10) gives every request one (root).
HasTimeout(v) == v = "root"
\* What one POST ends with against an endpoint that behaves as e: with a
\* timeout a silent endpoint ends the POST in a timeout error, without one
\* the POST never ends.
Seen(e, timed) == IF e = "never" /\ timed THEN "timeout" ELSE e

\* The task of the request process p is handling.
Task(p, payload) == [id |-> served, owner |-> p, payload |-> payload]
\* asyncio.create_task(...): one more task, which has made no POST yet.
NewTask(posts, t) == [u \in DOMAIN posts \cup {t} |-> IF u = t THEN 0 ELSE posts[u]]

\* The handler returns {"status": "ok", ...}.
Respond(p) ==
    /\ resp' = [resp EXCEPT ![p] = StatusOk(sync[p])]
    /\ pc' = [pc EXCEPT ![p] = "idle"]

\* Seeded fault: the handler answers without calling the dispatcher.
dispatch_Skipped(p) ==
    /\ pc[p] = "dispatch"
    /\ Respond(p)
    /\ UNCHANGED << variant, transient, repos, sub, idx, content, repo_file, readme_text, sync,
                    calls, nsync, ndisp, delay, sleeps, outcome, attempt, posted,
                    bg, served, last,
                    wrote, eval_payload, async_posts, issued >>

\* api:  post_evaluation(payload.evaluation_url, eval_payload)
\* root: asyncio.create_task(post_evaluation_async(...)); return {...}
dispatch(p) ==
    /\ pc[p] = "dispatch"
    /\ ndisp' = [ndisp EXCEPT ![p] = @ + 1]
    /\ eval_payload' = [eval_payload EXCEPT ![p] = EvalPayload(sub[p], sync[p])]
    /\ IF variant = "api"
       THEN /\ pc' = [pc EXCEPT ![p] = "post"]
            /\ UNCHANGED << resp, bg, async_posts >>
       ELSE /\ bg' = bg \cup {Task(p, eval_payload'[p])}
            /\ async_posts' = NewTask(async_posts, Task(p, eval_payload'[p]))
            /\ Respond(p)
    /\ UNCHANGED << variant, transient, repos, sub, idx, content, repo_file, readme_text, sync,
                    calls, nsync, delay, sleeps, outcome, attempt, posted, served, last,
                    wrote, issued >>

\* post_evaluation: one iteration of the loop; its return ends the handler.
\* A POST that never ends leaves the handler blocked in requests.post.
\*     r = requests.post(...); if r.status_code == 200: return True
\*     time.sleep(delay); delay *= 2
\* return False
post_evaluation(p) ==
    /\ pc[p] = "post"
    /\ \E e \in Endpoint :
         LET o == Seen(e, HasTimeout(variant))
         IN  IF o = "never"
             THEN /\ pc' = [pc EXCEPT ![p] = "blocked"]
                  /\ UNCHANGED << attempt, outcome, posted, resp, delay, sleeps >>
             ELSE /\ attempt' = [attempt EXCEPT ![p] = @ + 1]
                  /\ outcome' = [outcome EXCEPT ![p] = o]
                  /\ IF IsSuccess(o)
                     THEN /\ posted' = [posted EXCEPT ![p] = "True"]
                          /\ Respond(p)
                          /\ UNCHANGED << delay, sleeps >>
                     ELSE /\ sleeps' = [sleeps EXCEPT ![p] = Append(@, delay[p])]
                          /\ delay' = [delay EXCEPT ![p] = NextDelay(@)]
                          /\ IF MoreAttempts(attempt[p] + 1)
                             THEN UNCHANGED << pc, resp, posted >>
                             ELSE /\ posted' = [posted EXCEPT ![p] = "False"]
                                  /\ Respond(p)
    /\ UNCHANGED << variant, transient, repos, sub, idx, content, repo_file, readme_text, sync,
                    calls, nsync, ndisp, bg, served, last,
                    wrote, eval_payload, async_posts, issued >>

\* Seeded fault: a POST that is not answered 200 is made again.
post_evaluation_async_Retries(t) ==
    /\ t \in bg
    /\ pc[t.owner] = "idle"
    /\ \E e \in Endpoint :
         LET o == Seen(e, HasTimeout(variant))
         IN  /\ o # "never"
             /\ bg' = IF IsSuccess(o) THEN bg \ {t} ELSE bg
             /\ async_posts' = [async_posts EXCEPT ![t] = @ + 1]
    /\ UNCHANGED << variant, transient, repos, pc, sub, idx, content, repo_file, readme_text,
                    sync, resp, calls, nsync, ndisp, delay, sleeps, outcome, attempt,
                    posted, served, last, wrote, eval_payload, issued >>

\* post_evaluation_async: the detached task makes its one POST and ends,
\* whatever the outcome.  It runs on the event loop of the process that
\* created it, which init_or_update_repo (blocking calls, no await) holds
\* until the handler has returned.
post_evaluation_async(t) ==
    /\ t \in bg
    /\ pc[t.owner] = "idle"
    /\ \E e \in Endpoint :
         LET o == Seen(e, HasTimeout(variant))
         IN  /\ o # "never"
             /\ bg' = bg \ {t}
             /\ async_posts' = [async_posts EXCEPT ![t] = @ + 1]
    /\ UNCHANGED << variant, transient, repos, pc, sub, idx, content, repo_file, readme_text,
                    sync, resp, calls, nsync, ndisp, delay, sleeps, outcome, attempt,
                    posted, served, last,
                    wrote, eval_payload, issued >>

Next ==
    \/ \E p \in Workers :
         \/ handle_request(p)
         \/ get_repo(p)
         \/ create_repo(p)
         \/ attach_get_contents(p)
         \/ attach_update_file(p)
         \/ attach_create_file(p)
         \/ readme_get_contents(p)
         \/ readme_update_file(p)
         \/ readme_create_file(p)
         \/ license_create_file(p)
         \/ get_commits(p)
         \/ dispatch(p)
         \/ post_evaluation(p)
    \/ \E t \in bg : post_evaluation_async(t)

Spec == Init /\ [][Next]_vars

\* Two server processes (two workers, or two deployments with the same
\* token) run init_or_update_repo for the same task; their hosting calls
\* interleave in any order.  A request is followed to the return of
\* init_or_update_repo (or to the exception that ends it); what the handler
\* does after that touches no repository and is left to Spec.
NextRace ==
    \/ \E p \in Procs :
         \/ concurrent_request(p)
         \/ get_repo(p)
         \/ create_repo(p)
         \/ attach_get_contents(p)
         \/ attach_update_file(p)
         \/ attach_create_file(p)
         \/ readme_get_contents(p)
         \/ readme_update_file(p)
         \/ readme_create_file(p)
         \/ license_create_file(p)
         \/ get_commits(p)

\* The repository that init_or_update_repo(task, 1, "b1", [index.html]) leaves
\* when every call succeeds.
AfterRoundOne(v, task) ==
    Commit(Commit(Commit(CreatedRepo,
                         "index.html", RawBytes(b64decode(B64_hi))),
                  README, ReadmeForCreate(v, ReadmeInitial(v, task, "b1"), 1, "b1")),
           LICENSE, license_text)

\* The race starts on an account without the repository or with the one an
\* earlier round 1 left; the hosting service answers every call.
InitRace ==
    /\ variant \in Variants
    /\ transient = FALSE
    /\ repos \in [Tasks -> {NoRepo} \cup {AfterRoundOne(variant, t) : t \in Tasks}]
    /\ Fresh

SpecRace == InitRace /\ [][NextRace]_vars

\* ================================================================ claims
Handling(p) == sub[p] # NoSubmission
\* handle_request has answered the request in sub[p].
Completed(p) == pc[p] = "idle" /\ resp[p].kind # "none"
\* init_or_update_repo has returned for the request in sub[p].
Returned(p) == pc[p] \in {"dispatch", "post"} \/ (pc[p] = "idle" /\ resp[p].kind = "ok")

RECURSIVE SumSeq(_)
SumSeq(q) == IF q = <<>> THEN 0 ELSE q[1] + SumSeq(Tail(q))

RECURSIVE Pow2(_)
Pow2(n) == IF n = 0 THEN 1 ELSE 2 * Pow2(n - 1)

\* ---- C1
\* C1: a submission whose secret differs from the configured value is
\* answered {"error": "Invalid secret"}, and handling it makes no hosting-API
\* call, no call of the synchronizer and no dispatch (no POST, no task).
C1_InvalidSecretNoSideEffect ==
    \A p \in Procs :
        (Handling(p) /\ sub[p].secret # ConfiguredSecret)
        => /\ resp[p] = InvalidSecret
           /\ pc[p] = "idle"
           /\ calls[p] = <<>>
           /\ nsync[p] = 0
           /\ ndisp[p] = 0
           /\ attempt[p] = 0 /\ outcome[p] = "none"
           /\ \A t \in bg : t.owner = p => t.id # served

\* A wrong secret was answered while the task's repository already exists.
C1_Witness ==
    \E p \in Procs :
        /\ Handling(p) /\ sub[p].secret = "wrong"
        /\ resp[p] = InvalidSecret
        /\ repos[sub[p].task].exists

\* ---- C2
\* C2 as stated: every answered request with the right secret has called the
\* synchronizer exactly once and the dispatcher exactly once.
C2_Original ==
    \A p \in Procs :
        (Handling(p) /\ sub[p].secret = ConfiguredSecret /\ Completed(p))
        => nsync[p] = 1 /\ ndisp[p] = 1

\* C2, amended: a request with the right secret calls the synchronizer exactly
\* once; it calls the dispatcher exactly once when the synchronizer returns
\* and not at all when the synchronizer raises.
C2_SyncOnceDispatchOnceIfReturned ==
    \A p \in Procs :
        (Handling(p) /\ sub[p].secret = ConfiguredSecret)
        => /\ nsync[p] = 1
           /\ ndisp[p] <= 1
           /\ (pc[p] = "post" => ndisp[p] = 1)
           /\ (Completed(p) => (ndisp[p] = 1 <=> resp[p].kind = "ok"))
           /\ (Completed(p) /\ resp[p].kind # "ok" => ndisp[p] = 0 /\ attempt[p] = 0)

\* A request was answered "ok" after one synchronizer and one dispatcher call.
C2_Witness ==
    \E p \in Procs :
        /\ Completed(p) /\ resp[p].kind = "ok"
        /\ nsync[p] = 1 /\ ndisp[p] = 1

\* ---- C3
InSyncPastLookup ==
    {"attach", "update_file", "create_file", "readme", "readme_update",
     "readme_create", "license", "get_commits"}

\* C3: round 1 against a repository that does not exist calls create_repo
\* (public) and proceeds with the created repository; a later round against a
\* repository that does not exist ends in the repo-missing error having made
\* the lookup only: nothing is created or written and nothing is dispatched.
C3_RoundOneCreatesLaterRoundFails ==
    \A p \in Procs :
        (Handling(p) /\ sub[p].secret = ConfiguredSecret)
        => LET r == repos[sub[p].task]
           IN  /\ pc[p] = "create_repo" => sub[p].round = 1
               /\ (pc[p] \in InSyncPastLookup \/ Returned(p))
                    => r.exists /\ ~r.private
               /\ (sub[p].round = 1 /\ ~r.exists /\ pc[p] = "idle")
                    => calls[p] = << <<"get_repo", "", "failed">>, <<"create_repo", "", "failed">> >>
               /\ (sub[p].round > 1 /\ ~r.exists /\ pc[p] # "get_repo")
                    => /\ pc[p] = "idle"
                       /\ resp[p] = Raised("RuntimeError: repo does not exist")
                       /\ calls[p] = << <<"get_repo", "", "failed">> >>
                       /\ r = NoRepo
                       /\ ndisp[p] = 0 /\ attempt[p] = 0
                       /\ \A t \in bg : t.owner = p => t.id # served

\* A round-2 request found no repository and was refused.
C3_Witness ==
    \E p \in Procs :
        /\ Handling(p) /\ sub[p].round = 2
        /\ ~repos[sub[p].task].exists
        /\ resp[p] = Raised("RuntimeError: repo does not exist")

\* ---- C4
\* C4 as stated: when post_evaluation gives up after max_retries = 5 failed
\* attempts it has slept 1+2+4+8 = 15 seconds in 4 sleeps (none after the last
\* attempt) and returns False.
C4_Original ==
    \A p \in Procs :
        posted[p] = "False"
        => /\ attempt[p] = 5
           /\ Len(sleeps[p]) = 4
           /\ SumSeq(sleeps[p]) = 15

\* ---- C5
\* C5: post_evaluation makes at most max_retries POSTs; it returns True at the
\* first POST answered 200, without a further POST or sleep; every other
\* answer (another status, a transport error) is a failed attempt; it returns
\* False exactly when max_retries attempts have failed; the k-th sleep, the
\* one before the k-th retry, is 2^(k-1) seconds.
C5_BoundedRetriesBackoff ==
    \A p \in Procs :
        /\ attempt[p] <= max_retries
        /\ (posted[p] = "True" <=> outcome[p] = "200")
        /\ (posted[p] = "True"
              => /\ Len(sleeps[p]) = attempt[p] - 1
                 /\ pc[p] = "idle" /\ resp[p].kind = "ok")
        /\ (posted[p] = "False"
              <=> attempt[p] = max_retries /\ outcome[p] \notin {"none", "200"})
        /\ (posted[p] = "False" => pc[p] = "idle" /\ resp[p].kind = "ok")
        /\ (posted[p] # "True" => Len(sleeps[p]) = attempt[p])
        /\ (pc[p] = "post" => posted[p] = "none" /\ attempt[p] < max_retries)
        /\ \A k \in 1..Len(sleeps[p]) : sleeps[p][k] = Pow2(k - 1)
        /\ delay[p] = Pow2(Len(sleeps[p]))

\* The third POST was answered 200 after two failed attempts.
C5_Witness ==
    \E p \in Procs :
        /\ posted[p] = "True" /\ attempt[p] = 3
        /\ sleeps[p] = << 1, 2 >>

\* ---- helpers of C6..C10
\* The content the upsert writes for an attachment.
Decoded(a) == RawBytes(b64decode(a.content))
AttachedNames(s) == {s.attachments[i].filename : i \in 1..Len(s.attachments)}
\* The last attachment of s with filename fn.
LastAttached(s, fn) ==
    LET is == {i \in 1..Len(s.attachments) : s.attachments[i].filename = fn}
    IN  s.attachments[CHOOSE i \in is : \A j \in is : j <= i]
IsPrefix(a, b) == Len(a) <= Len(b) /\ SubSeq(b, 1, Len(a)) = a
LastOf(q) == q[Len(q)]
\* Process p makes a hosting-API call in this step.
Calls(p) == calls'[p] # calls[p] /\ calls'[p] # <<>>

\* ---- C6
\* The step condition of C6: when the upsert of an attachment runs on a repository whose file at
\* that path already holds the same content (as a first run leaves it), the
\* content at the path is the same after every step of the upsert; the lookup
\* that finds the file leads to update_file with the version token just read,
\* which is the current one; a create_file call is made only after a hosting
\* failure and is always rejected, so the file is never created a second time.
C6_Step(p) ==
    LET a == Attach(p)
        fn == a.filename
        old == repos[sub[p].task]
        new == repos'[sub[p].task]
    IN  (/\ pc[p] \in {"attach", "update_file", "create_file"}
         /\ b64decode(a.content) # B64Error
         /\ fn \in DOMAIN old.files
         /\ old.files[fn] = Decoded(a))
        => /\ fn \in DOMAIN new.files /\ new.files[fn] = old.files[fn]
           /\ (pc[p] = "attach" /\ Calls(p) /\ LastOf(calls'[p]) = << "get_contents", fn, "ok" >>)
                => /\ pc'[p] = "update_file"
                   /\ repo_file'[p] = [path |-> fn, sha |-> BlobSha(old.files[fn])]
           /\ (pc[p] = "update_file")
                => /\ repo_file[p] = [path |-> fn, sha |-> BlobSha(old.files[fn])]
                   /\ Calls(p) => /\ LastOf(calls'[p])[1] = "update_file"
                                  /\ LastOf(calls'[p])[2] = fn
                   /\ (Calls(p) /\ LastOf(calls'[p])[3] = "ok")
                        => /\ new.commits = old.commits + 1
                           /\ idx'[p] = idx[p] + 1
           /\ (pc[p] = "create_file")
                => /\ LastOf(calls[p])[3] = "failed"
                   /\ Calls(p) => LastOf(calls'[p]) = << "create_file", fn, "failed" >>
                   /\ new = old

\* C6: every step of every server process satisfies C6_Step: the upsert of
\* an attachment whose content is already at its path keeps that content,
\* updates with the token just read and never creates the file again.
C6_UpsertIdempotent == [][\A p \in Workers : C6_Step(p)]_vars

\* The second of two identical single-attachment synchronizations has
\* updated the file, which holds the content both runs wrote.
C6_Witness ==
    \E p \in Workers :
        /\ last.set /\ last.args = sub[p]
        /\ Len(sub[p].attachments) = 1
        /\ calls[p] = << << "get_repo", "", "ok" >>,
                         << "get_contents", "index.html", "ok" >>,
                         << "update_file", "index.html", "ok" >> >>
        /\ repos[sub[p].task].files["index.html"] = Decoded(sub[p].attachments[1])
        /\ last.files["index.html"] = Decoded(sub[p].attachments[1])

\* ---- C7
\* C7 as stated, for the README state it names: when a synchronization with
\* the arguments of the one before it returns, README.md is as the first call
\* left it.
C7_Original ==
    \A p \in Workers :
        (Returned(p) /\ last.replay /\ last.args = sub[p])
        => repos[sub[p].task].files[README] = last.files[README]

\* C7, amended: every file the first call left, other than README.md, is as
\* the first call left it, and the repeat adds no file except, in round 1, a
\* LICENSE whose creation failed (and was swallowed) in the first call; so is
\* README.md with the replacing README (root) and when README.md is itself
\* an attachment; with the cumulative README (api) the repeat has appended
\* one more round section to README.md.
C7_ReplaySameFilesReadmeByPolicy ==
    \A p \in Workers :
        (Returned(p) /\ last.replay /\ last.args = sub[p])
        => LET now == repos[sub[p].task].files
               s == sub[p]
           IN  /\ DOMAIN last.files \subseteq DOMAIN now
               /\ \A f \in DOMAIN last.files : f # README => now[f] = last.files[f]
               /\ \A f \in DOMAIN now \ DOMAIN last.files :
                    f = LICENSE /\ s.round = 1 /\ now[f] = license_text
               /\ (variant = "root" \/ README \in AttachedNames(s))
                    => now[README] = last.files[README]
               /\ (variant = "api" /\ README \notin AttachedNames(s))
                    => /\ IsPrefix(last.files[README], now[README])
                       /\ Len(now[README]) > Len(last.files[README])
                       /\ \A i \in (Len(last.files[README]) + 1)..Len(now[README]) :
                            now[README][i] = RoundSection(s.round, s.brief)[1]

\* A synchronization that writes a file was repeated and returned again.
C7_Witness ==
    \E p \in Workers :
        /\ Returned(p) /\ last.replay /\ last.args = sub[p]
        /\ sub[p].attachments # <<>>

\* ---- C8
ReadmeOf(r) == IF README \in DOMAIN r.files THEN r.files[README] ELSE <<>>
\* The text is the task title followed by round sections only.
TitleThenRounds(t, task) ==
    /\ t # <<>>
    /\ t[1] = Title(task)[1]
    /\ \A i \in 2..Len(t) : t[i].k = "round"

\* C8 as stated (api): the README always starts with the task title and
\* holds round sections after it, and no step takes anything away from it:
\* the README before is a prefix of the README after.
C8_Original ==
    [][variant = "api" =>
         \A t \in Tasks :
            /\ README \in DOMAIN repos'[t].files
                 => TitleThenRounds(repos'[t].files[README], t)
            /\ IsPrefix(ReadmeOf(repos[t]), ReadmeOf(repos'[t]))]_vars

\* The step condition of C8, amended (api): the README step of a
\* synchronization appends exactly
\* one round section, that of its round and brief, to the README it finds,
\* or creates title plus section when there is none, also when the
\* synchronization fails later at the commit read; the only other change of
\* the README is an attachment named README.md, which replaces the text by
\* the attachment's bytes before the section of that synchronization is
\* appended.  So the README is the title, or the bytes of the last README.md
\* attachment, followed by round sections in the order they were written, it
\* ends with the section of the synchronization that returned last, and a
\* step that is not such an attachment write leaves the old README a prefix
\* of the new one.
C8_Step(t) ==
    LET old == repos[t]
        new == repos'[t]
        writers == {p \in Procs : pc[p] # "idle" /\ sub[p].task = t /\ Calls(p)}
    IN  /\ README \in DOMAIN old.files => README \in DOMAIN new.files
        /\ ReadmeOf(new) # ReadmeOf(old)
             => \E p \in writers :
                  \/ /\ pc[p] \in {"update_file", "create_file"}
                     /\ Attach(p).filename = README
                     /\ ReadmeOf(new) = Decoded(Attach(p))
                  \/ /\ pc[p] \in {"readme_update", "readme_create"}
                     /\ ReadmeOf(new) =
                          (IF README \in DOMAIN old.files
                           THEN old.files[README] ELSE Title(t))
                          \o RoundSection(sub[p].round, sub[p].brief)
                     /\ IsPrefix(ReadmeOf(old), ReadmeOf(new))
        /\ \A p \in writers :
             (pc[p] \in {"readme_update", "readme_create"}
              /\ pc'[p] \in {"license", "get_commits"})
             => /\ Len(ReadmeOf(new)) = Len(ReadmeOf(old)) +
                      (IF README \in DOMAIN old.files THEN 1 ELSE 2)
                /\ LastOf(ReadmeOf(new)) = RoundSection(sub[p].round, sub[p].brief)[1]
        /\ README \in DOMAIN new.files
             => LET txt == new.files[README]
                IN  /\ txt # <<>>
                    /\ txt[1] = Title(t)[1] \/ txt[1].k = "bytes"
                    /\ \A i \in 2..Len(txt) : txt[i].k = "round"
        /\ \A p \in Procs :
             (Returned(p)' /\ sub'[p].task = t)
             => LastOf(ReadmeOf(new)) = RoundSection(sub'[p].round, sub'[p].brief)[1]

\* C8, amended (api): every step satisfies C8_Step for every task.
C8_CumulativeReadme == [][variant = "api" => \A t \in Tasks : C8_Step(t)]_vars

\* Round 1 with brief b1, then round 2 with brief b2: the README holds the
\* title and both sections, in that order.
C8_Witness ==
    /\ variant = "api"
    /\ \E p \in Workers :
         /\ Returned(p) /\ sub[p].round = 2
         /\ ReadmeOf(repos[sub[p].task]) =
              Title(sub[p].task) \o RoundSection(1, "b1") \o RoundSection(2, "b2")

\* ---- C9
\* C9 (root): when a synchronization has returned, README.md is the task
\* title and the brief of that synchronization and nothing else, whether
\* README.md was there before (with another brief, or written from an
\* attachment) or not.
C9_ReplacingReadme ==
    variant = "root" =>
        \A p \in Workers :
            Returned(p)
            => /\ README \in DOMAIN repos[sub[p].task].files
               /\ repos[sub[p].task].files[README] =
                    Title(sub[p].task) \o BriefBlock(sub[p].brief)

\* A second synchronization, with brief b2, has replaced an existing README.
C9_Witness ==
    /\ variant = "root"
    /\ \E p \in Workers :
         /\ Returned(p) /\ served = 2 /\ sub[p].brief = "b2"
         /\ \E i \in 1..Len(calls[p]) : calls[p][i] = << "update_file", README, "ok" >>
         /\ ~last.replay

\* ---- C10
\* The paths a synchronization of submission s may write.
MayWrite(s) ==
    AttachedNames(s) \cup {README} \cup (IF s.round = 1 THEN {LICENSE} ELSE {})

\* No step changes, removes or adds a file at a path that no running
\* synchronization of the task may write.
C10_Frame(t) ==
    LET old == repos[t].files
        new == repos'[t].files
        allowed == UNION {MayWrite(sub[p]) : p \in {q \in Procs : pc[q] # "idle" /\ sub[q].task = t}}
    IN  /\ DOMAIN old \subseteq DOMAIN new
        /\ \A f \in DOMAIN new :
             (f \notin DOMAIN old \/ new[f] # old[f]) => f \in allowed

C10_Step(p) ==
    LET t == sub[p].task
        old == repos[t]
        new == repos'[t]
    IN  /\ pc[p] = "create_repo"
             => /\ sub[p].round = 1
                /\ calls[p] = << << "get_repo", "", "failed" >> >>
                /\ old.exists => /\ new = old
                                 /\ pc'[p] = "idle"
                                 /\ resp'[p] = Raised("GithubException")
        /\ (Calls(p) /\ LastOf(calls'[p]) = << "get_repo", "", "ok" >>)
             => /\ pc'[p] \in {"attach", "readme"}
                /\ new = old
        /\ Returned(p)'
             => /\ \A i \in 1..Len(calls'[p]) :
                     calls'[p][i][1] = "create_repo" => calls'[p][i][3] = "ok"
                /\ \A fn \in AttachedNames(sub'[p]) \ {README} :
                     /\ fn \in DOMAIN new.files
                     /\ new.files[fn] = Decoded(LastAttached(sub'[p], fn))

\* A repository that exists stays, and stays public.
RepoStays(t) ==
    repos[t].exists => repos'[t].exists /\ ~repos'[t].private

C11_ResponseAfterDispatcher ==
    variant = "api" =>
        \A p \in Procs :
            /\ pc[p] \in {"dispatch", "post", "blocked"}
                 => resp[p].kind = "none" /\ posted[p] = "none"
            /\ resp[p].kind = "ok"
                 => /\ pc[p] = "idle"
                    /\ posted[p] \in {"True", "False"}
                    /\ posted[p] = "True" => outcome[p] = "200"
                    /\ posted[p] = "False"
                         => /\ attempt[p] = max_retries
                            /\ Len(sleeps[p]) = max_retries
                            /\ outcome[p] # "200"
                    /\ resp[p] = StatusOk(sync[p])
                    /\ sync[p].repo_url = HtmlUrl(sub[p].task)
                    /\ sync[p].pages_url = PagesUrl(sub[p].task)
                    /\ sync[p].commit_sha > 0

\* The handler answered "ok" after a dispatch that failed five times.
C11_Witness ==
    /\ variant = "api"
    /\ \E p \in Workers :
         /\ Completed(p) /\ resp[p].kind = "ok"
         /\ posted[p] = "False" /\ attempt[p] = 5 /\ outcome[p] = "500"

\* ---- C12
\* The task of the request that process p has answered.
TaskOf(p) == Task(p, EvalPayload(sub[p], sync[p]))

\* C12 (root): the handler never runs the blocking dispatcher and answers
\* "ok" with the synchronizer's result as soon as it has created the task;
\* every task that was created has made no POST while it runs and exactly
\* one when it has ended, so a request that was answered "ok" has a task that
\* is still to make its POST or has made exactly one; and the step in which
\* a task makes its POST, whatever the answer (a status, a transport error, a
\* timeout), ends the task and leaves every response and every handler as
\* it was.
C12_Step ==
    /\ \A p \in Procs :
         /\ pc'[p] \notin {"post", "blocked"}
         /\ attempt'[p] = 0 /\ posted'[p] = "none" /\ sleeps'[p] = <<>>
         /\ (pc[p] = "dispatch" /\ pc'[p] # "dispatch")
              => /\ resp'[p] = StatusOk(sync[p])
                 /\ TaskOf(p) \in bg' /\ TaskOf(p) \notin bg
    /\ \A p \in Workers :
         (pc'[p] = "idle" /\ resp'[p].kind = "ok")
         => /\ ndisp'[p] = 1
            /\ TaskOf(p)' \in DOMAIN async_posts'
    /\ bg' \subseteq DOMAIN async_posts'
    /\ \A t \in DOMAIN async_posts' :
         async_posts'[t] = IF t \in bg' THEN 0 ELSE 1
    /\ \A t \in bg :
         t \notin bg' => /\ async_posts'[t] = async_posts[t] + 1
                          /\ resp' = resp /\ pc' = pc /\ sync' = sync
    /\ \A t \in DOMAIN async_posts \cap DOMAIN async_posts' :
         async_posts'[t] # async_posts[t] => t \in bg /\ t \notin bg'

C12_OneDetachedAttempt == [][variant = "root" => C12_Step]_vars

\* A request was answered "ok" while its task had not made its POST yet.
C12_Witness ==
    /\ variant = "root"
    /\ \E p \in Workers :
         /\ Completed(p) /\ resp[p].kind = "ok"
         /\ TaskOf(p) \in bg /\ async_posts[TaskOf(p)] = 0

\* ---- C13
\* Submission s cut down to its first n attachments.
FirstAttachments(s, n) == [s EXCEPT !.attachments = SubSeq(s.attachments, 1, n)]
\* The number of calls in log q that satisfy: operation in ops, status in sts.
CountCalls(q, ops, sts) ==
    Cardinality({k \in 1..Len(q) : q[k][1] \in ops /\ q[k][3] \in sts})

\* The step condition of C13: an update_file that fails for attachment i
\* leaves the repository as it is and leads to create_file for the same
\* path, which the service refuses because the file is there; the step in
\* which create_file fails for attachment i ends init_or_update_repo and the
\* handler with the exception: the repository is as before the call, the i-1
\* attachments before it are committed (each path holds the content of the
\* last of them written there), the log holds the lookups of attachments
\* 1..i only and i-1 accepted writes (no later attachment, no README and no
\* LICENSE call), there is no synchronizer result, no dispatch, no task and
\* no "ok" response; and a handler that has ended makes no further call.
C13_Step(p) ==
    LET t == sub[p].task
        i == idx[p]
    IN  /\ (pc[p] = "update_file" /\ Calls(p) /\ LastOf(calls'[p])[3] = "failed")
             => /\ pc'[p] = "create_file"
                /\ repos' = repos
                /\ Attach(p).filename \in DOMAIN repos[t].files
        /\ (pc[p] = "create_file" /\ Attach(p).filename \in DOMAIN repos[t].files)
             => (Calls(p) => LastOf(calls'[p])[3] = "failed")
        /\ (pc[p] = "create_file" /\ Calls(p) /\ LastOf(calls'[p])[3] = "failed")
             => /\ pc'[p] = "idle"
                /\ resp'[p] = Raised("GithubException")
                /\ repos' = repos
                /\ idx'[p] = i
                /\ LastOf(calls'[p]) = << "create_file", Attach(p).filename, "failed" >>
                /\ CountCalls(calls'[p], {"get_contents"}, {"ok", "failed"}) = i
                /\ CountCalls(calls'[p], {"update_file", "create_file"}, {"ok"}) = i - 1
                /\ \A k \in 1..Len(calls'[p]) :
                     calls'[p][k][2] \in {""} \cup AttachedNames(FirstAttachments(sub[p], i))
                /\ \A fn \in AttachedNames(FirstAttachments(sub[p], i - 1)) :
                     /\ fn \in DOMAIN repos'[t].files
                     /\ repos'[t].files[fn] =
                          Decoded(LastAttached(FirstAttachments(sub[p], i - 1), fn))
                /\ sync'[p] = NoSync /\ eval_payload'[p] = NoPayload
                /\ ndisp'[p] = 0 /\ attempt'[p] = 0
                /\ bg' = bg /\ async_posts' = async_posts
        /\ (pc[p] = "idle" /\ pc'[p] = "idle" /\ served' = served)
             => calls'[p] = calls[p] /\ repos' = repos /\ resp'[p] = resp[p]

\* C13: every step of every server process satisfies C13_Step: a failed
\* upsert of an attachment aborts the synchronization and the request, and
\* what was written before stays.
C13_FailedUpsertAborts == [][\A p \in Workers : C13_Step(p)]_vars

\* The upsert of the second of two attachments has failed: the first is
\* committed, README.md is not there, the handler has raised.
C13_Witness ==
    \E p \in Workers :
        /\ pc[p] = "idle" /\ resp[p] = Raised("GithubException")
        /\ idx[p] = 2 /\ Len(sub[p].attachments) = 2
        /\ LastOf(calls[p]) = << "create_file", "style.css", "failed" >>
        /\ DOMAIN repos[sub[p].task].files = {"index.html"}
        /\ repos[sub[p].task].files["index.html"] = Decoded(sub[p].attachments[1])
        /\ ndisp[p] = 0

\* ---- C14
\* C14 as stated: create_file is attempted for an attachment only when no
\* file exists at its path, and never after a lookup of the path that found
\* the file (that is, never after an update_file that failed).
C14_Original ==
    \A p \in Procs :
        pc[p] = "create_file"
        => /\ Attach(p).filename \notin DOMAIN repos[sub[p].task].files
           /\ LastOf(calls[p])[1] # "update_file"

\* ---- C15
\* The paths of the calls of log q with an operation in ops and a status in
\* sts, in the order of the calls.
RECURSIVE PathsOf(_, _, _)
PathsOf(q, ops, sts) ==
    IF q = <<>> THEN <<>>
    ELSE (IF q[1][1] \in ops /\ q[1][3] \in sts THEN << q[1][2] >> ELSE <<>>)
         \o PathsOf(Tail(q), ops, sts)
\* The filenames of the attachments of s, in input order.
AttachedSeq(s) == [i \in 1..Len(s.attachments) |-> s.attachments[i].filename]

\* C15: when init_or_update_repo has returned, its hosting calls were, in
\* this order: get_repo, and create_repo right after it if it failed; for
\* each attachment in input order a lookup and an accepted write; the README
\* lookup and an accepted README write; in round 1 and only then one
\* create_file for LICENSE; last, one get_commits.  The commit_sha returned
\* is the latest commit of the repository, which (one server process writing)
\* is the commit of the last write of this run that the service accepted.
C15_OrderAndLatestCommit ==
    \A p \in Workers :
        Returned(p)
        => LET q == calls[p]
               n == Len(q)
               s == sub[p]
               writes == PathsOf(q, {"update_file", "create_file"}, {"ok"})
           IN  /\ q[1][1] = "get_repo"
               /\ q[1][3] = "failed" => q[2] = << "create_repo", "", "ok" >>
               /\ CountCalls(q, {"get_repo"}, {"ok", "failed"}) = 1
               /\ CountCalls(q, {"create_repo"}, {"ok", "failed"})
                    = (IF q[1][3] = "failed" THEN 1 ELSE 0)
               /\ PathsOf(q, {"get_contents"}, {"ok", "failed"})
                    = AttachedSeq(s) \o << README >>
               /\ \/ writes = AttachedSeq(s) \o << README >>
                  \/ s.round = 1 /\ writes = AttachedSeq(s) \o << README, LICENSE >>
               /\ s.round = 1 => /\ q[n - 1][1] = "create_file"
                                  /\ q[n - 1][2] = LICENSE
                                  /\ q[n - 2][2] = README /\ q[n - 2][3] = "ok"
               /\ s.round # 1 => q[n - 1][2] = README /\ q[n - 1][3] = "ok"
               /\ q[n] = << "get_commits", "", "ok" >>
               /\ CountCalls(q, {"get_commits"}, {"ok", "failed"}) = 1
               /\ sync[p].commit_sha = repos[s.task].commits
               /\ sync[p].commit_sha = wrote[p]
               /\ wrote[p] > 0

\* Round 1 with two attachments has returned: four accepted writes in
\* order, and the commit returned is the fourth, that of LICENSE.
C15_Witness ==
    \E p \in Workers :
        /\ Returned(p)
        /\ PathsOf(calls[p], {"update_file", "create_file"}, {"ok"})
             = << "index.html", "style.css", README, LICENSE >>
        /\ sync[p].commit_sha = 4 /\ wrote[p] = 4

\* ---- C16
\* C16 as stated, for the part about an existing LICENSE: no step of any
\* synchronization changes a LICENSE file that exists.
C16_Original ==
    [][\A t \in Tasks :
          LICENSE \in DOMAIN repos[t].files
          => /\ LICENSE \in DOMAIN repos'[t].files
             /\ repos'[t].files[LICENSE] = repos[t].files[LICENSE]]_vars

\* The step condition of C16, amended: the LICENSE step is entered only
\* from an accepted README write and only in round 1, and in round 1 every
\* accepted README write enters it; it makes one create_file call for
\* LICENSE, goes on to the commit read whether the call was accepted or not,
\* raises nothing, creates LICENSE with the license text when it is
\* accepted and changes nothing when a LICENSE is already there; when the
\* synchronization has returned, its call before the commit read is that
\* create_file exactly in round 1.  A LICENSE that exists is never removed
\* and changes only by the upsert of an attachment named LICENSE; a repeated
\* synchronization leaves the LICENSE the first one left.
C16_Step(p) ==
    LET t == sub[p].task
        old == repos[t].files
        new == repos'[t].files
        q == calls'[p]
    IN  /\ (pc'[p] = "license" /\ pc[p] # "license")
             => /\ sub[p].round = 1
                /\ pc[p] \in {"readme_update", "readme_create"}
                /\ LastOf(q)[2] = README /\ LastOf(q)[3] = "ok"
        /\ (pc[p] \in {"readme_update", "readme_create"} /\ Calls(p)
             /\ LastOf(q)[3] = "ok")
             => pc'[p] = (IF sub[p].round = 1 THEN "license" ELSE "get_commits")
        /\ (pc[p] = "license" /\ pc'[p] # "license")
             => /\ LastOf(q)[1] = "create_file" /\ LastOf(q)[2] = LICENSE
                /\ Len(q) = Len(calls[p]) + 1
                /\ pc'[p] = "get_commits"
                /\ resp'[p] = resp[p]
                /\ LICENSE \in DOMAIN old => LastOf(q)[3] = "failed" /\ repos' = repos
                /\ LastOf(q)[3] = "failed" => repos' = repos
                /\ LastOf(q)[3] = "ok" => /\ LICENSE \notin DOMAIN old
                                           /\ new = Put(old, LICENSE, license_text)
        /\ Returned(p)'
             => LET n == Len(q)
                IN  sub'[p].round = 1
                    <=> q[n - 1][1] = "create_file" /\ q[n - 1][2] = LICENSE
        /\ (pc[p] # "idle" /\ Calls(p) /\ LICENSE \in DOMAIN old)
             => /\ LICENSE \in DOMAIN new
                /\ new[LICENSE] # old[LICENSE]
                     => /\ pc[p] \in {"update_file", "create_file"}
                        /\ Attach(p).filename = LICENSE
                        /\ new[LICENSE] = Decoded(Attach(p))
        /\ (Returned(p)' /\ last'.replay /\ last'.args = sub'[p]
             /\ LICENSE \in DOMAIN last'.files)
             => new[LICENSE] = last'.files[LICENSE]

\* C16, amended: every step of every server process satisfies C16_Step.
C16_LicenseOnceInRoundOne == [][\A p \in Workers : C16_Step(p)]_vars

\* A repeated round 1 has returned: its create_file for LICENSE was refused
\* and swallowed, and LICENSE holds the license text of the first run.
C16_Witness ==
    \E p \in Workers :
        /\ Returned(p) /\ last.replay /\ last.args = sub[p] /\ sub[p].round = 1
        /\ calls[p][Len(calls[p]) - 1] = << "create_file", LICENSE, "failed" >>
        /\ LICENSE \in DOMAIN last.files
        /\ repos[sub[p].task].files[LICENSE] = license_text
        /\ last.files[LICENSE] = license_text

\* ---- C17
\* No synchronization of task t is under way.
Quiet(t) == \A p \in Procs : sub[p].task = t => pc[p] \in {"idle", "dispatch"}

WritePath(p) ==
    IF pc[p] = "update_file" THEN repo_file[p].path
    ELSE IF pc[p] = "create_file" THEN Attach(p).filename
    ELSE IF pc[p] \in {"readme_update", "readme_create"} THEN README
    ELSE LICENSE
WriteContent(p) ==
    IF pc[p] \in {"update_file", "create_file"} THEN content[p]
    ELSE IF pc[p] \in {"readme_update", "readme_create"} THEN readme_text'[p]
    ELSE license_text

\* The step condition of C17, amended (the service answers every call): an
\* update is accepted exactly when the token it carries is the current one
\* of the path, that is when no write to the path was accepted since the
\* lookup; a create is accepted exactly when the path holds no file; an
\* accepted write puts its content at its path and a refused one changes
\* nothing.  A refused update is followed by a create for the same path,
\* which is refused too, and outside the LICENSE step that ends the
\* synchronization with the exception.  So the first of two racing writes
\* wins: a path holds the content of the last write the service accepted,
\* and where that is not the content of the write it received last, that
\* later write was refused.
C17_Step(p) ==
    LET t == sub[p].task
        old == repos[t]
        new == repos'[t]
        path == WritePath(p)
        accepted == LastOf(calls'[p])[3] = "ok"
    IN  (pc[p] \in {"update_file", "create_file", "readme_update",
                    "readme_create", "license"} /\ Calls(p))
        => /\ pc[p] \in {"update_file", "readme_update"}
                => /\ path \in DOMAIN old.files
                   /\ accepted <=> repo_file[p].sha = BlobSha(old.files[path])
                   /\ ~accepted => pc'[p] = (IF pc[p] = "update_file"
                                             THEN "create_file" ELSE "readme_create")
           /\ pc[p] \in {"create_file", "readme_create", "license"}
                => /\ accepted <=> path \notin DOMAIN old.files
                   /\ (~accepted /\ pc[p] # "license")
                        => pc'[p] = "idle" /\ resp'[p] = Raised("GithubException")
           /\ accepted => new = Commit(old, path, WriteContent(p))
           /\ ~accepted => new = old
           /\ Shared(p) => issued'[t][path] = WriteContent(p)
           /\ (Shared(p) /\ new.files[path] # issued'[t][path]) => ~accepted
           /\ \A f \in DOMAIN issued'[t] \ {path} :
                f \in DOMAIN issued[t] /\ issued'[t][f] = issued[t][f]

C18_Original == \A p \in Procs : pc[p] # "blocked"

\* ---- C19
\* C19: the handler builds the evaluation payload and calls the dispatcher
\* only when init_or_update_repo has returned (its last hosting call is the
\* accepted commit read); the payload carries email, task, round and nonce
\* of the submission and the repo_url, commit_sha and pages_url that
\* init_or_update_repo returned, which are the ones of the "ok" response of
\* the same request; the task created for the request (root) carries that
\* payload; pages_url is https://<login>.github.io/<task>/.
C19_PayloadIsSyncResult ==
    /\ \A p \in Workers :
         /\ (ndisp[p] = 0 /\ pc[p] # "idle") => eval_payload[p] = NoPayload
         /\ ndisp[p] > 0
              => /\ LastOf(calls[p]) = << "get_commits", "", "ok" >>
                 /\ sync[p] # NoSync
                 /\ eval_payload[p].email = sub[p].email
                 /\ eval_payload[p].task = sub[p].task
                 /\ eval_payload[p].round = sub[p].round
                 /\ eval_payload[p].nonce = sub[p].nonce
                 /\ eval_payload[p].repo_url = sync[p].repo_url
                 /\ eval_payload[p].commit_sha = sync[p].commit_sha
                 /\ eval_payload[p].pages_url = sync[p].pages_url
                 /\ eval_payload[p].pages_url
                      = << "https://", Login, ".github.io/", sub[p].task, "/" >>
                 /\ eval_payload[p].commit_sha = wrote[p]
         /\ resp[p].kind = "ok"
              => /\ ndisp[p] = 1
                 /\ resp[p].repo_url = eval_payload[p].repo_url
                 /\ resp[p].commit_sha = eval_payload[p].commit_sha
                 /\ resp[p].pages_url = eval_payload[p].pages_url
         /\ \A t \in bg :
              (t.owner = p /\ t.id = served) => t.payload = eval_payload[p]
    /\ \A t \in bg :
         /\ t.payload.pages_url
              = << "https://", Login, ".github.io/", t.payload.task, "/" >>
         /\ t.payload.repo_url = HtmlUrl(t.payload.task)
         /\ t.payload.commit_sha > 0

\* A round-2 request was answered "ok" after its payload, with the commit
\* of that round, was posted and answered 200.
C19_Witness ==
    \E p \in Workers :
        /\ resp[p].kind = "ok" /\ posted[p] = "True"
        /\ sub[p].round = 2
        /\ eval_payload[p] = EvalPayload(sub[p], sync[p])
        /\ eval_payload[p].commit_sha = resp[p].commit_sha
        /\ eval_payload[p].commit_sha > 3

====
